---- MODULE Spec2Model ----
(***************************************************************************)
(* Time-entry lifecycle and daily-login tracking of SinProject-Server.     *)
(*                                                                         *)
(* The repository holds several route files that all work on the table     *)
(* "time_entries": routes/timer.js (mounted at /api/timer) and             *)
(* routes/timesheets.js (second half of src/routes/organization.js).  The  *)
(* model keeps one table and lets every handler of both files act on it;   *)
(* each handler applies the validators and hooks of the model file it was  *)
(* written against.  The stored duration is one column (durationMinutes in *)
(* models/TimeEntry.js, duration in the organization-based model).         *)
(*                                                                         *)
(* Handlers are atomic steps, except the two check-then-insert handlers    *)
(* (POST /timer/start, trackFirstLogin inside POST /auth/login), which are *)
(* split at their database calls so that requests interleave there.        *)
(* Times are milliseconds since the epoch.                                 *)
(***************************************************************************)
EXTENDS Integers, FiniteSets, Sequences, TLC

VARIABLES clock, ticks, entries, nextId, starting, trackers, nextTid, logins,
          firstLogin, users, breaks, guessing, compared, last

timerVars == <<entries, nextId, starting>>
dailyVars == <<trackers, nextTid, logins, firstLogin>>
accountVars == <<users, breaks, guessing, compared>>
vars == <<clock, ticks, entries, nextId, starting, trackers, nextTid, logins,
          firstLogin, users, breaks, guessing, compared, last>>

\* ------------------------------------------------------------------ bounds
MaxTicks == 2
MaxEntries == 2
MaxTrackers == 2
MaxBreaks == 3
MaxCompares == 6

\* ------------------------------------------------- constants of the program
MsPerMinute == 1000 * 60
MsPerHour == 1000 * 60 * 60
MsPerDay == 24 * MsPerHour

\* ------------------------------------------------------- modelling domains
TickMs == MsPerMinute \div 2
HalfDayMs == MsPerDay \div 2
TenSecondsMs == 10 * 1000
NoTime == 0 - 1
Users == {"u1", "u2"}
WorkProjects == {"P", "R"}
ProjectIds == {"P", "R", "Q"}
SeqProjectIds == {"P", "Q"}
Activities == {"A"}
ActivityIds == {"A", "B"}
Slots == {1, 2}
Instants == {k * TickMs : k \in 0 .. MaxTicks}
TimeOrNone == Instants \cup {NoTime}
NoteVals == {"undef", "n"}

\* ------------------------------------------------------------ responses
Resp(op, user, status, msg, proj, val) ==
  [op |-> op, user |-> user, status |-> status, msg |-> msg, proj |-> proj,
   val |-> val]

NoResp == Resp("none", "none", 0, "", "", NoTime)

\* globalErrorHandler: a SequelizeValidationError or unique-constraint error is
\* answered 400 by sendErrorProd and 500 (no statusCode on the error) in
\* development mode.
DbErrorStatuses == {400, 500}

\* ------------------------------------------------------- TimeEntry model
NewEntry(u, p, s, e, manual) ==
  [userId |-> u, workProjectId |-> p, startTime |-> s, endTime |-> e,
   duration |-> 0, isManual |-> manual]

\* endTime.validate.isAfterStart: TRUE when the validator does not throw.
isAfterStart(value, startTime) ==
  ~(value # NoTime /\ startTime # NoTime /\ value <= startTime)

\* Math.floor(durationMs / (1000 * 60))
FloorMinutes(s, e) == (e - s) \div MsPerMinute

\* Math.round(durationMs / (1000 * 60)): halves round up
RoundMinutes(s, e) == (2 * (e - s) + MsPerMinute) \div (2 * MsPerMinute)

\* hooks.beforeSave of models/TimeEntry.js
beforeSave(row) ==
  IF row.startTime # NoTime /\ row.endTime # NoTime
  THEN [row EXCEPT !.duration = FloorMinutes(row.startTime, row.endTime)]
  ELSE row

\* durationMinutes.validate.min
DurationMin(d) == d >= 0

\* instance.update(values) on models/TimeEntry.js: the validators of the fields
\* being written run, then the hook, then the validators of the fields the hook
\* changed.  ok = FALSE is a SequelizeValidationError and nothing is written.
SaveUpdate(old, new, fields) ==
  LET hooked == beforeSave(new)
      v1 == ("endTime" \in fields) => isAfterStart(new.endTime, new.startTime)
      v2 == (hooked.duration # old.duration) => DurationMin(hooked.duration)
  IN [ok |-> v1 /\ v2, row |-> hooked]

\* A findOne that leaves userId out of its where clause.
OpenEntries_AnyUser(es, u) == {i \in DOMAIN es : es[i].endTime = NoTime}

\* TimeEntry.findOne({ where: { userId, endTime: null } }): the candidates
OpenEntries(es, u) ==
  {i \in DOMAIN es : es[i].userId = u /\ es[i].endTime = NoTime}

\* TimeEntry.findOne({ where: { id, userId } })
OwnEntry(es, u, id) == id \in DOMAIN es /\ es[id].userId = u

Insert(es, id, row) == [i \in DOMAIN es \cup {id} |-> IF i = id THEN row ELSE es[i]]

Remove(es, id) == [i \in DOMAIN es \ {id} |-> es[i]]

Outcome(es, resp) == [entries |-> es, resp |-> resp]

\* --------------------------------------------------- POST /api/timer/start
\* A handler that resolves the project and the activity before it looks for
\* an open entry.
StartCheck_ResolveFirst(es, u, p, a) ==
  IF p \notin WorkProjects
  THEN {[go |-> FALSE, entries |-> es,
         resp |-> Resp("start", u, 404, "Work project not found", "", NoTime)]}
  ELSE IF a \notin Activities
  THEN {[go |-> FALSE, entries |-> es,
         resp |-> Resp("start", u, 404, "Activity not found", "", NoTime)]}
  ELSE IF OpenEntries(es, u) # {}
  THEN {[go |-> FALSE, entries |-> es,
         resp |-> Resp("start", u, 400, "active timer", es[i].workProjectId, NoTime)] :
          i \in OpenEntries(es, u)}
  ELSE {[go |-> TRUE, entries |-> es, resp |-> NoResp]}

\* The part before TimeEntry.create, with the table as this part leaves it.
\* go = TRUE: the handler goes on to create.
StartCheck(es, u, p, a) ==
  IF OpenEntries(es, u) # {}
  THEN {[go |-> FALSE, entries |-> es,
         resp |-> Resp("start", u, 400, "active timer", es[i].workProjectId, NoTime)] :
          i \in OpenEntries(es, u)}
  ELSE IF p \notin WorkProjects
  THEN {[go |-> FALSE, entries |-> es,
         resp |-> Resp("start", u, 404, "Work project not found", "", NoTime)]}
  ELSE IF a \notin Activities
  THEN {[go |-> FALSE, entries |-> es,
         resp |-> Resp("start", u, 404, "Activity not found", "", NoTime)]}
  ELSE {[go |-> TRUE, entries |-> es, resp |-> NoResp]}

Idle == [phase |-> "idle", user |-> "none", proj |-> ""]

StartFind(r, u, p, a) ==
  /\ starting[r].phase = "idle"
  /\ \E o \in StartCheck(entries, u, p, a) :
       /\ IF o.go
          THEN /\ starting' = [starting EXCEPT ![r] = [phase |-> "create", user |-> u, proj |-> p]]
               /\ UNCHANGED last
          ELSE /\ last' = o.resp
               /\ UNCHANGED starting
       /\ entries' = o.entries
  /\ UNCHANGED <<clock, ticks, nextId, dailyVars, accountVars>>

StartCreate(r) ==
  /\ starting[r].phase = "create"
  /\ nextId <= MaxEntries
  /\ entries' = Insert(entries, nextId,
                       beforeSave(NewEntry(starting[r].user, starting[r].proj, clock, NoTime, FALSE)))
  /\ nextId' = nextId + 1
  /\ starting' = [starting EXCEPT ![r] = Idle]
  /\ last' = Resp("start", starting[r].user, 201, "Timer started", "", NoTime)
  /\ UNCHANGED <<clock, ticks, dailyVars, accountVars>>

\* ---------------------------------------------------- PUT /api/timer/stop
StopOutcomes(es, u, now) ==
  IF OpenEntries(es, u) = {}
  THEN {Outcome(es, Resp("stop", u, 400, "No active timer found", "", NoTime))}
  ELSE UNION {
         LET s == SaveUpdate(es[i], [es[i] EXCEPT !.endTime = now], {"endTime", "description"})
         IN IF s.ok
            THEN {Outcome(Insert(es, i, s.row), Resp("stop", u, 200, "Timer stopped", "", NoTime))}
            ELSE {Outcome(es, Resp("stop", u, st, "Validation failed", "", NoTime)) :
                    st \in DbErrorStatuses}
         : i \in OpenEntries(es, u)}

Stop(u) ==
  /\ \E o \in StopOutcomes(entries, u, clock) :
       /\ entries' = o.entries
       /\ last' = o.resp
  /\ UNCHANGED <<clock, ticks, nextId, starting, dailyVars, accountVars>>

\* ------------------------------------------------- POST /api/timer/entries
\* schemas.createManualTimeEntry: endTime is Joi.date().greater(ref startTime)
JoiCreateManual(s, e) == e > s

\* The handler's own test `end <= start`
ManualRangeBad(s, e) == e <= s

CreateManualOutcomes(es, id, u, p, a, s, e) ==
  IF ~JoiCreateManual(s, e)
  THEN {Outcome(es, Resp("createManual", u, 400, "Validation failed", "", NoTime))}
  ELSE IF p \notin WorkProjects
  THEN {Outcome(es, Resp("createManual", u, 404, "Work project not found", "", NoTime))}
  ELSE IF a \notin Activities
  THEN {Outcome(es, Resp("createManual", u, 404, "Activity not found", "", NoTime))}
  ELSE IF ManualRangeBad(s, e)
  THEN {Outcome(es, Resp("createManual", u, 400, "End time must be after start time", "", NoTime))}
  ELSE {Outcome(Insert(es, id, beforeSave(NewEntry(u, p, s, e, TRUE))),
                Resp("createManual", u, 201, "Manual time entry created", "", NoTime))}

CreateManual(u, p, a, s, e) ==
  /\ nextId <= MaxEntries
  /\ \E o \in CreateManualOutcomes(entries, nextId, u, p, a, s, e) :
       /\ entries' = o.entries
       /\ last' = o.resp
       /\ nextId' = IF o.resp.status = 201 THEN nextId + 1 ELSE nextId
  /\ UNCHANGED <<clock, ticks, starting, dailyVars, accountVars>>

\* --------------------------------------------- PUT /api/timer/entries/:id
\* The patch carries startTime ps and endTime pe; NoTime stands for a field the
\* body does not carry (the body then carries taskName or description only).
\* schemas.updateTimeEntry custom rule: TRUE when the body is accepted.
JoiUpdateTimeEntry(ps, pe) == ~(ps # NoTime /\ pe # NoTime /\ pe <= ps)

Merge(row, ps, pe) ==
  [row EXCEPT !.startTime = IF ps # NoTime THEN ps ELSE @,
              !.endTime = IF pe # NoTime THEN pe ELSE @]

PatchFields(ps, pe) ==
  (IF ps # NoTime THEN {"startTime"} ELSE {}) \cup (IF pe # NoTime THEN {"endTime"} ELSE {})

UpdateOutcomes(es, u, id, ps, pe) ==
  IF ~JoiUpdateTimeEntry(ps, pe)
  THEN {Outcome(es, Resp("update", u, 400, "Validation failed", "", NoTime))}
  ELSE IF ~OwnEntry(es, u, id)
  THEN {Outcome(es, Resp("update", u, 404, "Time entry not found", "", NoTime))}
  ELSE IF es[id].endTime = NoTime
  THEN {Outcome(es, Resp("update", u, 400, "Only completed time entries can be edited", "", NoTime))}
  ELSE LET s == SaveUpdate(es[id], Merge(es[id], ps, pe), PatchFields(ps, pe))
       IN IF s.ok
          THEN {Outcome(Insert(es, id, s.row), Resp("update", u, 200, "Time entry updated", "", NoTime))}
          ELSE {Outcome(es, Resp("update", u, st, "Validation failed", "", NoTime)) :
                  st \in DbErrorStatuses}

Update(u, id, ps, pe) ==
  /\ \E o \in UpdateOutcomes(entries, u, id, ps, pe) :
       /\ entries' = o.entries
       /\ last' = o.resp
  /\ UNCHANGED <<clock, ticks, nextId, starting, dailyVars, accountVars>>

\* ------------------------------------------ DELETE /api/timer/entries/:id
DeleteOutcomes(es, u, id) ==
  IF ~OwnEntry(es, u, id)
  THEN {Outcome(es, Resp("delete", u, 404, "Time entry not found", "", NoTime))}
  ELSE IF es[id].endTime = NoTime
  THEN {Outcome(es, Resp("delete", u, 400, "Only completed time entries can be deleted", "", NoTime))}
  ELSE {Outcome(Remove(es, id), Resp("delete", u, 200, "Time entry deleted", "", NoTime))}

Delete(u, id) ==
  /\ \E o \in DeleteOutcomes(entries, u, id) :
       /\ entries' = o.entries
       /\ last' = o.resp
  /\ UNCHANGED <<clock, ticks, nextId, starting, dailyVars, accountVars>>

\* ------------------------------------------- POST /api/timesheets/entries
\* The required-field test reads `workLocationtype`, a name the handler never
\* declares (it destructures workLocationType): with organizationId,
\* customerId, processId and activityId present the test throws a
\* ReferenceError, which catchAsync hands to the error handler (500).  With
\* one of the four missing the test short-circuits to the 400.  ids = TRUE
\* when the four ids are present.  Nothing after the test is ever reached.
SheetCreateOutcomes(es, u, ids, s, e) ==
  IF ~ids
  THEN {Outcome(es, Resp("sheetCreate", u, 400, "All required fields must be provided", "", NoTime))}
  ELSE {Outcome(es, Resp("sheetCreate", u, 500, "ReferenceError", "", NoTime))}

SheetCreate(u, ids, s, e) ==
  /\ \E o \in SheetCreateOutcomes(entries, u, ids, s, e) :
       /\ entries' = o.entries
       /\ last' = o.resp
  /\ UNCHANGED <<clock, ticks, nextId, starting, dailyVars, accountVars>>

\* ---------------------------------------- PUT /api/timesheets/entries/:id
\* ps, pe: the instants `${date}T${startTime}` and `${date}T${endTime}`; the
\* times are written only when date, startTime and endTime are all given
\* (ps and pe both set).  The organization-based model has no hook.
SheetUpdateOutcomes(es, u, id, ps, pe) ==
  IF ~OwnEntry(es, u, id)
  THEN {Outcome(es, Resp("sheetUpdate", u, 404, "Timesheet entry not found", "", NoTime))}
  ELSE IF ps # NoTime /\ pe # NoTime
  THEN IF pe <= ps
       THEN {Outcome(es, Resp("sheetUpdate", u, 400, "End time must be after start time", "", NoTime))}
       ELSE {Outcome(Insert(es, id, [es[id] EXCEPT !.startTime = ps, !.endTime = pe,
                                                  !.duration = RoundMinutes(ps, pe)]),
                     Resp("sheetUpdate", u, 200, "Timesheet entry updated", "", NoTime))}
  ELSE {Outcome(es, Resp("sheetUpdate", u, 200, "Timesheet entry updated", "", NoTime))}

SheetUpdate(u, id, ps, pe) ==
  /\ \E o \in SheetUpdateOutcomes(entries, u, id, ps, pe) :
       /\ entries' = o.entries
       /\ last' = o.resp
  /\ UNCHANGED <<clock, ticks, nextId, starting, dailyVars, accountVars>>

\* ------------------------------------- DELETE /api/timesheets/entries/:id
SheetDeleteOutcomes(es, u, id) ==
  IF ~OwnEntry(es, u, id)
  THEN {Outcome(es, Resp("sheetDelete", u, 404, "Timesheet entry not found", "", NoTime))}
  ELSE {Outcome(Remove(es, id), Resp("sheetDelete", u, 200, "Timesheet entry deleted", "", NoTime))}

SheetDelete(u, id) ==
  /\ \E o \in SheetDeleteOutcomes(entries, u, id) :
       /\ entries' = o.entries
       /\ last' = o.resp
  /\ UNCHANGED <<clock, ticks, nextId, starting, dailyVars, accountVars>>

\* ===================================================== DailyLoginTracker
\* new Date(t).toISOString().split("T")[0]: the UTC calendar date, as a day number
DateOf(t) == t \div MsPerDay

\* diffHours.toFixed(2), in hundredths of an hour (halves round up); a
\* hundredth of an hour is MsPerHour / 100 ms
HoursFixed2(diffMs) == (diffMs + MsPerHour \div 200) \div (MsPerHour \div 100)

Max0(x) == IF x < 0 THEN 0 ELSE x

\* A model whose hook is not registered.
trackerBeforeSave_NoHook(row) == row

\* hooks.beforeSave of models/DailyLoginTracker.js
trackerBeforeSave(row) ==
  IF row.firstLoginTime # NoTime /\ row.dayEndTime # NoTime
  THEN [row EXCEPT !.totalWorkingHours = Max0(HoursFixed2(row.dayEndTime - row.firstLoginTime))]
  ELSE [row EXCEPT !.totalWorkingHours = NoTime]

\* A create that stores the start of the day instead of the login instant.
NewTracker_DayStart(u, loginTime) ==
  [userId |-> u, loginDate |-> DateOf(loginTime),
   firstLoginTime |-> DateOf(loginTime) * MsPerDay,
   dayEndTime |-> NoTime, totalWorkingHours |-> NoTime, notes |-> "null",
   location |-> "null"]

NewTracker(u, loginTime) ==
  [userId |-> u, loginDate |-> DateOf(loginTime), firstLoginTime |-> loginTime,
   dayEndTime |-> NoTime, totalWorkingHours |-> NoTime, notes |-> "null",
   location |-> "null"]

\* findOne({ where: { userId, loginDate } }): the candidates
TrackersFor(ts, u, d) == {i \in DOMAIN ts : ts[i].userId = u /\ ts[i].loginDate = d}

\* A table without the unique index.
UniqueUserDate_NoIndex(ts, u, d) == TRUE

\* indexes.unique_user_date: TRUE when the insert does not violate the index
UniqueUserDate(ts, u, d) == TrackersFor(ts, u, d) = {}

\* firstLogin remembers, for each (user, date), the loginTime of the first login
\* that was answered 200.
Remember(fl, u, d, t) ==
  IF <<u, d>> \in DOMAIN fl THEN fl
  ELSE [k \in DOMAIN fl \cup {<<u, d>>} |-> IF k = <<u, d>> THEN t ELSE fl[k]]

NoLogin == [phase |-> "idle", user |-> "none", loginTime |-> NoTime]

\* POST /api/auth/login with valid credentials, up to `user.update({lastLogin})`
LoginBegin(r, u) ==
  /\ logins[r].phase = "idle"
  /\ logins' = [logins EXCEPT ![r] = [phase |-> "find", user |-> u, loginTime |-> clock]]
  /\ UNCHANGED <<clock, ticks, timerVars, accountVars, trackers, nextTid, firstLogin, last>>

\* trackFirstLogin, the existing-row branch: the row is returned as it is
FoundResult(ts, i) == [isFirstLogin |-> FALSE, trackers |-> ts, tracker |-> ts[i]]

\* trackFirstLogin: the findOne and, when a row exists, the return
TrackFind(r) ==
  LET u == logins[r].user
      d == DateOf(logins[r].loginTime)
  IN /\ logins[r].phase = "find"
     /\ IF TrackersFor(trackers, u, d) # {}
        THEN \E i \in TrackersFor(trackers, u, d) :
               LET res == FoundResult(trackers, i)
               IN /\ trackers' = res.trackers
                  /\ last' = Resp("login", u, 200,
                                  IF res.isFirstLogin THEN "first login" ELSE "not first login",
                                  "", res.tracker.firstLoginTime)
                  /\ firstLogin' = Remember(firstLogin, u, d, logins[r].loginTime)
                  /\ logins' = [logins EXCEPT ![r] = NoLogin]
        ELSE /\ logins' = [logins EXCEPT ![r].phase = "create"]
             /\ UNCHANGED <<trackers, firstLogin, last>>
     /\ UNCHANGED <<clock, ticks, timerVars, accountVars, nextTid>>

\* trackFirstLogin: this.create(...) and the return, or the unique-index error
TrackCreate(r) ==
  LET u == logins[r].user
      t == logins[r].loginTime
  IN /\ logins[r].phase = "create"
     /\ nextTid <= MaxTrackers
     /\ logins' = [logins EXCEPT ![r] = NoLogin]
     /\ IF UniqueUserDate(trackers, u, DateOf(t))
        THEN /\ trackers' = Insert(trackers, nextTid, trackerBeforeSave(NewTracker(u, t)))
             /\ nextTid' = nextTid + 1
             /\ firstLogin' = Remember(firstLogin, u, DateOf(t), t)
             /\ last' = Resp("login", u, 200, "first login", "", t)
        ELSE /\ \E st \in DbErrorStatuses :
                  last' = Resp("login", u, st, "unique_user_date", "", NoTime)
             /\ UNCHANGED <<trackers, nextTid, firstLogin>>
     /\ UNCHANGED <<clock, ticks, timerVars, accountVars>>

\* trackFirstLogin run without interruption: the results it can return, each
\* with the table it leaves.  tid is the id a created row gets.
trackFirstLogin(ts, tid, u, loginTime) ==
  IF TrackersFor(ts, u, DateOf(loginTime)) # {}
  THEN {FoundResult(ts, i) : i \in TrackersFor(ts, u, DateOf(loginTime))}
  ELSE {[isFirstLogin |-> TRUE,
         trackers |-> Insert(ts, tid, trackerBeforeSave(NewTracker(u, loginTime))),
         tracker |-> trackerBeforeSave(NewTracker(u, loginTime))]}

\* POST /api/auth/login with valid credentials, handled without interruption
Login(u) ==
  /\ \E res \in trackFirstLogin(trackers, nextTid, u, clock) :
       /\ res.isFirstLogin => nextTid <= MaxTrackers
       /\ trackers' = res.trackers
       /\ nextTid' = IF res.isFirstLogin THEN nextTid + 1 ELSE nextTid
       /\ firstLogin' = Remember(firstLogin, u, DateOf(clock), clock)
       /\ last' = Resp("login", u, 200,
                       IF res.isFirstLogin THEN "first login" ELSE "not first login",
                       "", res.tracker.firstLoginTime)
  /\ UNCHANGED <<clock, ticks, timerVars, accountVars, logins>>

TOutcome(ts, resp) == [trackers |-> ts, resp |-> resp]

\* A handler without the already-ended test.
AlreadyEnded_Never(row) == FALSE

\* `if (tracker.dayEndTime)` of POST /end-day
AlreadyEnded(row) == row.dayEndTime # NoTime

\* DailyLoginTracker.prototype.endDay followed by the optional location save
EndDayRow(row, endTime, notes, location) ==
  LET a == trackerBeforeSave([row EXCEPT !.dayEndTime = endTime,
                                         !.notes = IF notes # "undef" THEN notes ELSE @])
  IN IF location # "undef" THEN trackerBeforeSave([a EXCEPT !.location = location]) ELSE a

\* POST /api/daily-login/end-day
EndDayOutcomes(ts, u, now, notes, location) ==
  IF TrackersFor(ts, u, DateOf(now)) = {}
  THEN {TOutcome(ts, Resp("endDay", u, 400, "No login recorded for today", "", NoTime))}
  ELSE {IF AlreadyEnded(ts[i])
        THEN TOutcome(ts, Resp("endDay", u, 400, "Day has already been ended", "", ts[i].dayEndTime))
        ELSE TOutcome(Insert(ts, i, EndDayRow(ts[i], now, notes, location)),
                      Resp("endDay", u, 200, "Day ended", "", now))
        : i \in TrackersFor(ts, u, DateOf(now))}

EndDay(u, notes, location) ==
  /\ \E o \in EndDayOutcomes(trackers, u, clock, notes, location) :
       /\ trackers' = o.trackers
       /\ last' = o.resp
  /\ UNCHANGED <<clock, ticks, timerVars, accountVars, nextTid, logins, firstLogin>>

\* PUT /api/daily-login/tracker/:trackerId
UpdateTrackerRow(row, notes, location) ==
  trackerBeforeSave([row EXCEPT !.notes = IF notes # "undef" THEN notes ELSE @,
                                !.location = IF location # "undef" THEN location ELSE @])

UpdateTrackerOutcomes(ts, u, tid, notes, location) ==
  IF ~(tid \in DOMAIN ts /\ ts[tid].userId = u)
  THEN {TOutcome(ts, Resp("updateTracker", u, 404, "Tracker not found", "", NoTime))}
  ELSE IF notes = "undef" /\ location = "undef"
  THEN {TOutcome(ts, Resp("updateTracker", u, 400, "No valid fields to update", "", NoTime))}
  ELSE {TOutcome(Insert(ts, tid, UpdateTrackerRow(ts[tid], notes, location)),
                 Resp("updateTracker", u, 200, "Tracker updated", "", NoTime))}

UpdateTracker(u, tid, notes, location) ==
  /\ \E o \in UpdateTrackerOutcomes(trackers, u, tid, notes, location) :
       /\ trackers' = o.trackers
       /\ last' = o.resp
  /\ UNCHANGED <<clock, ticks, timerVars, accountVars, nextTid, logins, firstLogin>>

\* Half a day passes.
TickHalfDay ==
  /\ ticks < MaxTicks
  /\ ticks' = ticks + 1
  /\ clock' = clock + HalfDayMs
  /\ UNCHANGED <<timerVars, accountVars, dailyVars, last>>

\* Ten seconds pass.
TickTenSeconds ==
  /\ ticks < MaxTicks
  /\ ticks' = ticks + 1
  /\ clock' = clock + TenSecondsMs
  /\ UNCHANGED <<timerVars, accountVars, dailyVars, last>>

\* ------------------------------------------------ breaks of a TimeEntry
\* `breaks` is the breaks array of one TimeEntry instance.
BreakReasons == {"Break", "Lunch"}

\* TimeEntry.prototype.addBreak
addBreak(bs, now, reason) ==
  Append(bs, [startTime |-> now, endTime |-> NoTime, reason |-> reason])

\* TimeEntry.prototype.endBreak
endBreak(bs, now) ==
  IF Len(bs) > 0 /\ bs[Len(bs)].endTime = NoTime
  THEN [bs EXCEPT ![Len(bs)].endTime = now]
  ELSE bs

AddBreak(reason) ==
  /\ Len(breaks) < MaxBreaks
  /\ breaks' = addBreak(breaks, clock, reason)
  /\ UNCHANGED <<clock, ticks, timerVars, dailyVars, users, guessing, compared, last>>

EndBreak ==
  /\ breaks' = endBreak(breaks, clock)
  /\ UNCHANGED <<clock, ticks, timerVars, dailyVars, users, guessing, compared, last>>

\* ================================================================= User
\* The users table after seeding: an administrator and a regular user.
NewUser(role) ==
  [role |-> role, isActive |-> TRUE, loginAttempts |-> 0, lockUntil |-> NoTime,
   lastLogin |-> NoTime]

SeededUsers == [u \in Users |-> NewUser(IF u = "u1" THEN "admin" ELSE "user")]

\* Account ids (an account's id and its email go together); "u3" names no
\* account of the seeded table.
AccountIds == Users \cup {"u3"}

\* config.security
maxLoginAttempts == 5
lockoutTime == 30 * 60 * 1000

\* config.jwt.accessTokenExpiry
accessTokenExpiry == 15 * 60 * 1000

\* User.prototype.isLocked
isLocked(u, now) == u.lockUntil # NoTime /\ u.lockUntil > now

\* User.prototype.incLoginAttempts
incLoginAttempts(u, now) ==
  IF u.lockUntil # NoTime /\ u.lockUntil < now
  THEN [u EXCEPT !.loginAttempts = 1, !.lockUntil = NoTime]
  ELSE IF u.loginAttempts + 1 >= maxLoginAttempts /\ ~isLocked(u, now)
  THEN [u EXCEPT !.loginAttempts = @ + 1, !.lockUntil = now + lockoutTime]
  ELSE [u EXCEPT !.loginAttempts = @ + 1]

\* A reset that clears the counter and keeps the lock.
resetLoginAttempts_KeepLock(u) == [u EXCEPT !.loginAttempts = 0]

\* User.prototype.resetLoginAttempts
resetLoginAttempts(u) == [u EXCEPT !.loginAttempts = 0, !.lockUntil = NoTime]

\* ------------------------------------------------- POST /api/auth/login
LoginBody(status, message, fields, attemptsRemaining) ==
  [status |-> status, message |-> message, fields |-> fields,
   attemptsRemaining |-> attemptsRemaining]

\* Math.ceil((user.lockUntil - Date.now()) / (1000 * 60))
CeilMinutes(ms) == (ms + MsPerMinute - 1) \div MsPerMinute

\* The handler run without interruption.  pwOk: comparePassword's result.
\* tid is the id a created tracker row gets.
LoginOutcomes(us, ts, tid, now, email, pwOk) ==
  IF email \notin DOMAIN us
  THEN {[users |-> us, trackers |-> ts, isFirstLogin |-> FALSE,
         body |-> LoginBody(401, "Invalid email or password", {"success", "message"}, NoTime)]}
  ELSE IF isLocked(us[email], now)
  THEN {[users |-> us, trackers |-> ts, isFirstLogin |-> FALSE,
         body |-> LoginBody(423, "Account locked",
                            {"success", "message", "lockTimeRemaining"},
                            CeilMinutes(us[email].lockUntil - now))]}
  ELSE IF ~us[email].isActive
  THEN {[users |-> us, trackers |-> ts, isFirstLogin |-> FALSE,
         body |-> LoginBody(401, "Account has been deactivated", {"success", "message"}, NoTime)]}
  ELSE IF ~pwOk
  THEN LET u == incLoginAttempts(us[email], now)
       IN {[users |-> [us EXCEPT ![email] = u], trackers |-> ts, isFirstLogin |-> FALSE,
            body |-> LoginBody(401, "Invalid email or password",
                               {"success", "message", "attemptsRemaining"},
                               Max0(maxLoginAttempts - (u.loginAttempts + 1)))]}
  ELSE LET u == IF us[email].loginAttempts > 0
                THEN resetLoginAttempts(us[email]) ELSE us[email]
       IN {[users |-> [us EXCEPT ![email] = [u EXCEPT !.lastLogin = now]],
            trackers |-> res.trackers, isFirstLogin |-> res.isFirstLogin,
            body |-> LoginBody(200, "Welcome back", {"success", "message", "data"}, NoTime)] :
             res \in trackFirstLogin(ts, tid, email, now)}

LoginReq(email, pwOk) ==
  /\ \E o \in LoginOutcomes(users, trackers, nextTid, clock, email, pwOk) :
       /\ o.isFirstLogin => nextTid <= MaxTrackers
       /\ users' = o.users
       /\ trackers' = o.trackers
       /\ nextTid' = IF o.isFirstLogin THEN nextTid + 1 ELSE nextTid
       /\ last' = Resp("login", email, o.body.status, o.body.message, "",
                       o.body.attemptsRemaining)
  /\ UNCHANGED <<clock, ticks, timerVars, logins, firstLogin, breaks, guessing, compared>>

\* ----------------------- POST /api/auth/login, wrong passwords interleaved
\* A request between its read of the user row and its write: snap is the
\* row as findOne returned it.  compared counts the password comparisons
\* that came out false, per account.
NoGuess == [phase |-> "idle", email |-> "none", snap |-> NewUser("user")]

\* this.update(updates) of incLoginAttempts: loginAttempts is written from
\* the instance, lockUntil only when updates carries it.
incWrite(row, snap, now) ==
  [row EXCEPT !.loginAttempts = incLoginAttempts(snap, now).loginAttempts,
              !.lockUntil = IF incLoginAttempts(snap, now).lockUntil # snap.lockUntil
                            THEN incLoginAttempts(snap, now).lockUntil ELSE @]

\* findOne, isLocked, isActive and comparePassword (false)
GuessRead(r, email) ==
  /\ guessing[r].phase = "idle"
  /\ email \in DOMAIN users
  /\ IF isLocked(users[email], clock)
     THEN /\ last' = Resp("login", email, 423, "Account locked", "",
                          CeilMinutes(users[email].lockUntil - clock))
          /\ UNCHANGED <<guessing, compared>>
     ELSE /\ users[email].isActive
          /\ compared[email] < MaxCompares
          /\ guessing' = [guessing EXCEPT ![r] =
                            [phase |-> "compared", email |-> email, snap |-> users[email]]]
          /\ compared' = [compared EXCEPT ![email] = @ + 1]
          /\ UNCHANGED last
  /\ UNCHANGED <<clock, ticks, timerVars, dailyVars, users, breaks>>

\* incLoginAttempts and the 401
GuessWrite(r) ==
  /\ guessing[r].phase = "compared"
  /\ guessing[r].email \in DOMAIN users
  /\ users' = [users EXCEPT ![guessing[r].email] = incWrite(@, guessing[r].snap, clock)]
  /\ guessing' = [guessing EXCEPT ![r] = NoGuess]
  /\ last' = Resp("login", guessing[r].email, 401, "Invalid email or password", "",
                  Max0(maxLoginAttempts
                       - (incLoginAttempts(guessing[r].snap, clock).loginAttempts + 1)))
  /\ UNCHANGED <<clock, ticks, timerVars, dailyVars, breaks, compared>>

\* ------------------------------------------- middleware/auth.js, rbac.js
\* The Authorization header of a request.  form: absent, present without
\* the "Bearer " prefix, or a bearer token.  A token is malformed, signed
\* with another key, issued for another issuer or audience, or as
\* generateTokens signs it; id is the account it names and exp its expiry.
TokenDefects == {"ok", "malformed", "badsig", "badclaims"}

TokenExpiries == {accessTokenExpiry, accessTokenExpiry + lockoutTime}

Headers ==
  {[form |-> f, defect |-> "ok", id |-> "u3", exp |-> 0] : f \in {"none", "basic"}}
    \cup [form : {"bearer"}, defect : TokenDefects, id : AccountIds, exp : TokenExpiries]

\* config.jwt.refreshTokenExpiry
refreshTokenExpiry == 7 * MsPerDay

\* User.prototype.generateTokens at time now: both tokens are signed with
\* the same secret, issuer and audience; they differ in the payload and in
\* the expiry.
generateTokens(id, now) ==
  [accessToken |-> [form |-> "bearer", defect |-> "ok", id |-> id,
                    exp |-> now + accessTokenExpiry,
                    payload |-> {"id", "email", "role", "name"}],
   refreshToken |-> [form |-> "bearer", defect |-> "ok", id |-> id,
                     exp |-> now + refreshTokenExpiry, payload |-> {"id"}]]

Denied(status, message) ==
  [pass |-> FALSE, user |-> "none", status |-> status, message |-> message]

\* authenticate without the check of exp.
authenticate_NoExpiry(us, now, h) ==
  IF h.form # "bearer" THEN Denied(401, "Access denied. No token provided.")
  ELSE IF h.defect # "ok" THEN Denied(401, "Invalid token.")
  ELSE IF h.id \notin DOMAIN us
  THEN Denied(401, "Token is no longer valid. User not found.")
  ELSE IF ~us[h.id].isActive THEN Denied(401, "Your account has been deactivated.")
  ELSE IF isLocked(us[h.id], now) THEN Denied(423, "Account is temporarily locked")
  ELSE [pass |-> TRUE, user |-> h.id, status |-> 0, message |-> ""]

\* authenticate: jwt.verify checks the signature, then exp, then audience
\* and issuer; then the user is read from the table.
authenticate(us, now, h) ==
  IF h.form # "bearer" THEN Denied(401, "Access denied. No token provided.")
  ELSE IF h.defect \in {"malformed", "badsig"} THEN Denied(401, "Invalid token.")
  ELSE IF now >= h.exp THEN Denied(401, "Token has expired.")
  ELSE IF h.defect = "badclaims" THEN Denied(401, "Invalid token.")
  ELSE IF h.id \notin DOMAIN us
  THEN Denied(401, "Token is no longer valid. User not found.")
  ELSE IF ~us[h.id].isActive THEN Denied(401, "Your account has been deactivated.")
  ELSE IF isLocked(us[h.id], now) THEN Denied(423, "Account is temporarily locked")
  ELSE [pass |-> TRUE, user |-> h.id, status |-> 0, message |-> ""]

RoleNames == {"user", "manager", "admin"}

\* roleHierarchy[role] || 0
roleHierarchy(role) ==
  IF role = "admin" THEN 3 ELSE IF role = "manager" THEN 2
  ELSE IF role = "user" THEN 1 ELSE 0

\* A gate that lets every authenticated caller through.
authorize_Open(requiredRole, userRole) == TRUE

\* authorize(requiredRole): TRUE when next() is called, FALSE for the 403
authorize(requiredRole, userRole) ==
  ~(roleHierarchy(userRole) < roleHierarchy(requiredRole))

\* authorize of the rbac.js with the roles user and admin only
authorizeTwoRole(requiredRole, userRole) ==
  ~(requiredRole = "admin" /\ userRole # "admin")

\* A gate that decides on the role the token was issued with: the role of
\* the seeded account.
Gate_TokenRole(us, now, h, requiredRole) ==
  LET a == authenticate(us, now, h)
  IN IF ~a.pass THEN a
     ELSE IF ~authorize(requiredRole,
                        IF a.user \in DOMAIN SeededUsers
                        THEN SeededUsers[a.user].role ELSE "user")
     THEN [pass |-> FALSE, user |-> a.user, status |-> 403,
           message |-> "You do not have permission to perform this action."]
     ELSE a

\* router.use(authenticate) followed by authorize(requiredRole)
Gate(us, now, h, requiredRole) ==
  LET a == authenticate(us, now, h)
  IN IF ~a.pass THEN a
     ELSE IF ~authorize(requiredRole, us[a.user].role)
     THEN [pass |-> FALSE, user |-> a.user, status |-> 403,
           message |-> "You do not have permission to perform this action."]
     ELSE a

\* --------------------------------------------------- routes/admin.js
\* The :id parameter: the account it resolves to (the uuid column compares
\* without regard to case) and whether it is written in upper case.
\* req.user.id is the stored, lower-case text.
IdParams == [acct : AccountIds, upper : BOOLEAN]

\* id === req.user.id
SameIdText(idp, user) == idp.acct = user /\ ~idp.upper

\* req.body of PUT /users/:id; "undef": the key is absent
RolePatch == {"undef", "user", "admin"}
ActivePatch == {"undef", "true", "false"}

AOutcome(us, ts, op, user, status, msg) ==
  [users |-> us, trackers |-> ts, resp |-> Resp(op, user, status, msg, "", NoTime)]

\* PUT /api/admin/users/:id
AdminPutOutcomes(us, ts, now, h, idp, role, isActive) ==
  LET g == Gate(us, now, h, "admin")
  IN
  IF ~g.pass
  THEN {AOutcome(us, ts, "adminPut", g.user, g.status, g.message)}
  ELSE IF idp.acct \notin DOMAIN us
  THEN {AOutcome(us, ts, "adminPut", h.id, 404, "User not found")}
  ELSE IF SameIdText(idp, h.id) /\ isActive = "false"
  THEN {AOutcome(us, ts, "adminPut", h.id, 400, "You cannot deactivate your own account")}
  ELSE {AOutcome([us EXCEPT ![idp.acct] =
                    [@ EXCEPT !.role = IF role = "undef" THEN @ ELSE role,
                              !.isActive = IF isActive = "undef" THEN @
                                           ELSE isActive = "true"]],
                 ts, "adminPut", h.id, 200, "User updated successfully")}

\* The count without the exclusion of the target.
adminCount_All(us, idp) == Cardinality({a \in DOMAIN us : us[a].role = "admin"})

\* User.count({ where: { role: "admin", id: { [Op.ne]: id } } })
adminCount(us, idp) ==
  Cardinality({a \in DOMAIN us : us[a].role = "admin" /\ a # idp.acct})

\* user.destroy(): the row goes, and its daily_login_trackers rows with it
\* (onDelete CASCADE)
destroy(us, acct) == [a \in DOMAIN us \ {acct} |-> us[a]]

cascade(ts, acct) == [i \in {j \in DOMAIN ts : ts[j].userId # acct} |-> ts[i]]

\* DELETE /api/admin/users/:id
AdminDeleteOutcomes(us, ts, now, h, idp) ==
  LET g == Gate(us, now, h, "admin")
  IN
  IF ~g.pass
  THEN {AOutcome(us, ts, "adminDelete", g.user, g.status, g.message)}
  ELSE IF idp.acct \notin DOMAIN us
  THEN {AOutcome(us, ts, "adminDelete", h.id, 404, "User not found")}
  ELSE IF SameIdText(idp, h.id)
  THEN {AOutcome(us, ts, "adminDelete", h.id, 400, "You cannot delete your own account")}
  ELSE IF us[idp.acct].role = "admin" /\ adminCount(us, idp) = 0
  THEN {AOutcome(us, ts, "adminDelete", h.id, 400, "Cannot delete the last admin user")}
  ELSE {AOutcome(destroy(us, idp.acct), cascade(ts, idp.acct),
                 "adminDelete", h.id, 200, "User deleted successfully")}

\* Access tokens generateTokens has issued: well-formed, signed, with the
\* right issuer and audience.
IssuedTokens == {h \in Headers : h.form = "bearer" /\ h.defect = "ok"}

\* POST /api/auth/logout: authenticate, a log line, 200.
LogoutOutcomes(us, ts, now, h) ==
  LET a == authenticate(us, now, h)
  IN IF ~a.pass
     THEN {AOutcome(us, ts, "logout", a.user, a.status, a.message)}
     ELSE {AOutcome(us, ts, "logout", a.user, 200, "Logged out successfully")}

Logout(h) ==
  /\ \E o \in LogoutOutcomes(users, trackers, clock, h) :
       users' = o.users /\ trackers' = o.trackers /\ last' = o.resp
  /\ UNCHANGED <<clock, ticks, timerVars, nextTid, logins, firstLogin, breaks,
                 guessing, compared>>

\* User.create: the row joins the table
CreateUser(us, email, row) ==
  [a \in DOMAIN us \cup {email} |-> IF a = email THEN row ELSE us[a]]

\* POST /api/auth/register: no authenticate, no role gate.  role is the
\* body's role, "undef" when the key is absent (schemas.register then puts
\* "user").
RegisterOutcomes(us, ts, now, email, role) ==
  IF email \in DOMAIN us
  THEN {AOutcome(us, ts, "register", email, 400, "User with this email already exists")}
  ELSE {AOutcome(CreateUser(us, email,
                            [NewUser(IF role = "undef" THEN "user" ELSE role)
                               EXCEPT !.lastLogin = now]),
                 ts, "register", email, 201, "Account created successfully")}

\* POST /api/admin/users
AdminCreateOutcomes(us, ts, now, h, email, role) ==
  LET g == Gate(us, now, h, "admin")
  IN
  IF ~g.pass
  THEN {AOutcome(us, ts, "adminCreate", g.user, g.status, g.message)}
  ELSE IF email \in DOMAIN us
  THEN {AOutcome(us, ts, "adminCreate", h.id, 400, "User with this email already exists")}
  ELSE {AOutcome(CreateUser(us, email, NewUser(IF role = "undef" THEN "user" ELSE role)),
                 ts, "adminCreate", h.id, 201, "User created successfully")}

Register(email, role) ==
  /\ \E o \in RegisterOutcomes(users, trackers, clock, email, role) :
       users' = o.users /\ trackers' = o.trackers /\ last' = o.resp
  /\ UNCHANGED <<clock, ticks, timerVars, nextTid, logins, firstLogin, breaks,
                 guessing, compared>>

AdminCreate(h, email, role) ==
  /\ \E o \in AdminCreateOutcomes(users, trackers, clock, h, email, role) :
       users' = o.users /\ trackers' = o.trackers /\ last' = o.resp
  /\ UNCHANGED <<clock, ticks, timerVars, nextTid, logins, firstLogin, breaks,
                 guessing, compared>>

AdminPut(h, idp, role, isActive) ==
  /\ \E o \in AdminPutOutcomes(users, trackers, clock, h, idp, role, isActive) :
       users' = o.users /\ trackers' = o.trackers /\ last' = o.resp
  /\ UNCHANGED <<clock, ticks, timerVars, nextTid, logins, firstLogin, breaks,
                 guessing, compared>>

AdminDelete(h, idp) ==
  /\ \E o \in AdminDeleteOutcomes(users, trackers, clock, h, idp) :
       users' = o.users /\ trackers' = o.trackers /\ last' = o.resp
  /\ UNCHANGED <<clock, ticks, timerVars, nextTid, logins, firstLogin, breaks,
                 guessing, compared>>

\* ---------------------------------------- routes/timer.js: the listings
\* req.query.status: the completion filter
StatusFilters == {"all", "completed", "active"}

\* TimeEntry.findAndCountAll({ where: { userId, endTime: ... } })
Listed(es, u, status) ==
  {i \in DOMAIN es : /\ es[i].userId = u
                     /\ status = "completed" => es[i].endTime # NoTime
                     /\ status = "active" => es[i].endTime = NoTime}

\* GET /api/timer/entries/user/:userId and /users/:userId/entries
UserEntriesOutcomes(us, es, now, h, userId, status) ==
  LET g == Gate(us, now, h, "manager")
  IN
  IF ~g.pass
  THEN {[listed |-> {},
         resp |-> Resp("userEntries", g.user, g.status, g.message, "", NoTime)]}
  ELSE {[listed |-> Listed(es, userId, status),
         resp |-> Resp("userEntries", h.id, 200, "listed", "",
                       Cardinality(Listed(es, userId, status)))]}

\* GET /api/timer/entries
MyEntriesOutcomes(us, es, now, h, status) ==
  LET a == authenticate(us, now, h)
  IN
  IF ~a.pass
  THEN {[listed |-> {}, resp |-> Resp("myEntries", a.user, a.status, a.message, "", NoTime)]}
  ELSE {[listed |-> Listed(es, a.user, status),
         resp |-> Resp("myEntries", a.user, 200, "listed", "",
                       Cardinality(Listed(es, a.user, status)))]}

\* GET /api/projects/:id/time-entries of the projects router written for
\* the Project model: behind authenticate and requireUser only.  The
\* entry's project is its projectId there, workProjectId here.
ProjectEntriesOutcomes(us, es, now, h, p) ==
  LET a == authenticate(us, now, h)
  IN
  IF ~a.pass
  THEN {[listed |-> {}, resp |-> Resp("projectEntries", a.user, a.status, a.message, "", NoTime)]}
  ELSE IF p \notin WorkProjects
  THEN {[listed |-> {}, resp |-> Resp("projectEntries", a.user, 404, "Project not found", "", NoTime)]}
  ELSE {[listed |-> {i \in DOMAIN es : es[i].workProjectId = p},
         resp |-> Resp("projectEntries", a.user, 200, "listed", p,
                       Cardinality({i \in DOMAIN es : es[i].workProjectId = p}))]}

MyEntries(h, status) ==
  /\ \E o \in MyEntriesOutcomes(users, entries, clock, h, status) : last' = o.resp
  /\ UNCHANGED <<clock, ticks, timerVars, dailyVars, accountVars>>

ProjectEntries(h, p) ==
  /\ \E o \in ProjectEntriesOutcomes(users, entries, clock, h, p) : last' = o.resp
  /\ UNCHANGED <<clock, ticks, timerVars, dailyVars, accountVars>>

UserEntries(h, userId, status) ==
  /\ \E o \in UserEntriesOutcomes(users, entries, clock, h, userId, status) :
       last' = o.resp
  /\ UNCHANGED <<clock, ticks, timerVars, dailyVars, accountVars>>

\* A quarter of an hour, or the lockout time, passes.
TickQuarterHour ==
  /\ ticks < MaxTicks
  /\ ticks' = ticks + 1
  /\ \E step \in {accessTokenExpiry, lockoutTime} : clock' = clock + step
  /\ UNCHANGED <<timerVars, dailyVars, accountVars, last>>

\* ------------------------------------------------------------------- time
Tick ==
  /\ ticks < MaxTicks
  /\ ticks' = ticks + 1
  /\ clock' = clock + TickMs
  /\ UNCHANGED <<timerVars, accountVars, dailyVars, last>>

Init ==
  /\ clock = 0
  /\ ticks = 0
  /\ entries = << >>
  /\ nextId = 1
  /\ starting = [r \in Slots |-> Idle]
  /\ trackers = << >>
  /\ nextTid = 1
  /\ logins = [r \in Slots |-> NoLogin]
  /\ firstLogin = << >>
  /\ users = SeededUsers
  /\ breaks = << >>
  /\ guessing = [r \in Slots |-> NoGuess]
  /\ compared = [e \in Users |-> 0]
  /\ last = NoResp

Next ==
  \/ Tick
  \/ \E r \in Slots, u \in Users, p \in ProjectIds, a \in ActivityIds : StartFind(r, u, p, a)
  \/ \E r \in Slots : StartCreate(r)
  \/ \E u \in Users : Stop(u)

\* Requests interleave at the database calls of POST /timer/start.
Spec == Init /\ [][Next]_vars

\* Requests handled one at a time: a handler starts only when no other request
\* is between its database calls.
AllIdle == \A r \in Slots : starting[r].phase = "idle"

SeqNext ==
  \/ Tick
  \/ \E u \in Users, p \in SeqProjectIds, a \in ActivityIds : AllIdle /\ StartFind(1, u, p, a)
  \/ StartCreate(1)
  \/ \E u \in Users : AllIdle /\ Stop(u)
  \/ \E u \in Users, p \in SeqProjectIds, a \in ActivityIds, s \in Instants, e \in Instants :
       AllIdle /\ CreateManual(u, p, a, s, e)
  \/ \E u \in Users, id \in 1 .. MaxEntries, ps \in TimeOrNone, pe \in TimeOrNone :
       AllIdle /\ Update(u, id, ps, pe)
  \/ \E u \in Users, id \in 1 .. MaxEntries : AllIdle /\ Delete(u, id)
  \/ \E u \in Users, ids \in BOOLEAN, s \in Instants, e \in Instants :
       AllIdle /\ SheetCreate(u, ids, s, e)
  \/ \E u \in Users, id \in 1 .. MaxEntries, ps \in TimeOrNone, pe \in TimeOrNone :
       AllIdle /\ SheetUpdate(u, id, ps, pe)
  \/ \E u \in Users, id \in 1 .. MaxEntries : AllIdle /\ SheetDelete(u, id)

SpecSeq == Init /\ [][SeqNext]_vars

\* Logins interleave at the database calls of trackFirstLogin; end-day
\* requests (without notes or location) run between them.
DailyNext ==
  \/ TickHalfDay
  \/ \E r \in Slots, u \in Users : LoginBegin(r, u)
  \/ \E r \in Slots : TrackFind(r)
  \/ \E r \in Slots : TrackCreate(r)
  \/ \E u \in Users : EndDay(u, "undef", "undef")

SpecDaily == Init /\ [][DailyNext]_vars

\* Daily-login requests handled one at a time.
DaySeqNext ==
  \/ TickHalfDay
  \/ \E u \in Users : Login(u)
  \/ \E u \in Users, n \in NoteVals, l \in NoteVals : EndDay(u, n, l)
  \/ \E u \in Users, tid \in 1 .. MaxTrackers, n \in NoteVals, l \in NoteVals :
       UpdateTracker(u, tid, n, l)

SpecDaySeq == Init /\ [][DaySeqNext]_vars

\* Daily-login requests handled one at a time, seconds apart or half a day
\* apart; the bodies carry a location and no notes.
HoursNext ==
  \/ TickTenSeconds
  \/ TickHalfDay
  \/ \E u \in Users : Login(u)
  \/ \E u \in Users, l \in NoteVals : EndDay(u, "undef", l)
  \/ \E u \in Users, tid \in 1 .. MaxTrackers, l \in NoteVals :
       UpdateTracker(u, tid, "undef", l)

SpecHours == Init /\ [][HoursNext]_vars

\* Calls of addBreak and endBreak on one TimeEntry.
BreakNext ==
  \/ Tick
  \/ \E reason \in BreakReasons : AddBreak(reason)
  \/ EndBreak

SpecBreaks == Init /\ [][BreakNext]_vars

\* Logins handled one at a time.
LoginNext ==
  \/ TickQuarterHour
  \/ \E email \in AccountIds, pwOk \in BOOLEAN : LoginReq(email, pwOk)

SpecLogin == Init /\ [][LoginNext]_vars

\* The admin router.
AdminNext ==
  \/ TickQuarterHour
  \/ \E h \in Headers, idp \in IdParams, role \in RolePatch, isActive \in ActivePatch :
       AdminPut(h, idp, role, isActive)
  \/ \E h \in Headers, idp \in IdParams : AdminDelete(h, idp)
  \/ \E h \in Headers, userId \in AccountIds, status \in StatusFilters :
       UserEntries(h, userId, status)

SpecAdmin == Init /\ [][AdminNext]_vars

\* The states authenticate reads: accounts locked by wrong passwords,
\* deactivated or deleted by an admin, and tokens running out.
GateNext ==
  \/ TickQuarterHour
  \/ \E email \in AccountIds : LoginReq(email, FALSE)
  \/ \E h \in Headers, acct \in AccountIds, isActive \in {"true", "false"} :
       AdminPut(h, [acct |-> acct, upper |-> FALSE], "undef", isActive)
  \/ \E h \in Headers, acct \in AccountIds :
       AdminDelete(h, [acct |-> acct, upper |-> FALSE])

SpecGate == Init /\ [][GateNext]_vars

\* Completed entries of both users, edited, deleted and listed.
ListNext ==
  \/ Tick
  \/ \E u \in Users, p \in SeqProjectIds, a \in ActivityIds, s \in Instants, e \in Instants :
       CreateManual(u, p, a, s, e)
  \/ \E u \in Users, id \in 1 .. MaxEntries, ps \in TimeOrNone, pe \in TimeOrNone :
       Update(u, id, ps, pe)
  \/ \E u \in Users, id \in 1 .. MaxEntries : Delete(u, id)
  \/ \E h \in Headers, status \in StatusFilters : MyEntries(h, status)
  \/ \E h \in Headers, userId \in AccountIds, status \in StatusFilters :
       UserEntries(h, userId, status)
  \/ \E h \in Headers, p \in ProjectIds : ProjectEntries(h, p)

SpecList == Init /\ [][ListNext]_vars

\* Logins with a wrong password interleaving between the read of the user
\* row and the write of incLoginAttempts.
GuessNext ==
  \/ \E r \in Slots, email \in Users : GuessRead(r, email)
  \/ \E r \in Slots : GuessWrite(r)

SpecGuess == Init /\ [][GuessNext]_vars

\* Accounts created by registration and by the admin, and deleted.
RegisterNext ==
  \/ TickQuarterHour
  \/ \E email \in AccountIds, role \in RolePatch : Register(email, role)
  \/ \E h \in IssuedTokens, email \in AccountIds, role \in RolePatch :
       AdminCreate(h, email, role)
  \/ \E h \in IssuedTokens, acct \in AccountIds :
       AdminDelete(h, [acct |-> acct, upper |-> FALSE])

SpecRegister == Init /\ [][RegisterNext]_vars

\* Requests bearing issued tokens while accounts are locked, deactivated,
\* deleted and given other roles.
SessionNext ==
  \/ TickQuarterHour
  \/ LoginReq("u2", FALSE)
  \/ \E h \in IssuedTokens, acct \in AccountIds, role \in RolePatch,
        isActive \in ActivePatch :
       AdminPut(h, [acct |-> acct, upper |-> FALSE], role, isActive)
  \/ \E h \in IssuedTokens, acct \in AccountIds :
       AdminDelete(h, [acct |-> acct, upper |-> FALSE])
  \/ \E h \in IssuedTokens : Logout(h)

SpecSession == Init /\ [][SessionNext]_vars

\* ============================================================ properties
\* C1: for every user, in every reachable state (requests to POST /timer/start
\* interleaving at their database calls included), at most one TimeEntry row
\* of the user has endTime = null.
AtMostOneOpenEntry ==
  \A u \in Users :
    Cardinality({i \in DOMAIN entries :
                   entries[i].userId = u /\ entries[i].endTime = NoTime}) <= 1

\* C2: while user u has an open entry, every start of u, whatever project and
\* activity it asks for (unknown ones included), is answered 400 with the
\* project of an open entry of u in the message, does not go on to create a
\* row, and leaves the table as it is.
StartConflict ==
  \A u \in Users, p \in ProjectIds, a \in ActivityIds :
    (\E i \in DOMAIN entries : entries[i].userId = u /\ entries[i].endTime = NoTime)
    => \A o \in StartCheck(entries, u, p, a) :
         /\ ~o.go
         /\ o.entries = entries
         /\ o.resp.status = 400
         /\ o.resp.msg = "active timer"
         /\ \E i \in DOMAIN entries :
              /\ entries[i].userId = u
              /\ entries[i].endTime = NoTime
              /\ o.resp.proj = entries[i].workProjectId

\* C2 happens: a start was refused with 400 naming the project of the open
\* entry of the caller.
StartConflictSeen ==
  /\ last.op = "start"
  /\ last.status = 400
  /\ \E i \in DOMAIN entries :
       /\ entries[i].userId = last.user
       /\ entries[i].endTime = NoTime
       /\ entries[i].workProjectId = last.proj

\* C3: when user u has no open entry, every outcome of stop by u is the 400
\* "No active timer found" and the table is exactly as before.
StopWithoutOpenEntry ==
  \A u \in Users :
    (~ \E i \in DOMAIN entries : entries[i].userId = u /\ entries[i].endTime = NoTime)
    => \A o \in StopOutcomes(entries, u, clock) :
         /\ o.resp.status = 400
         /\ o.resp.msg = "No active timer found"
         /\ o.entries = entries

\* C3 happens: a stop was refused while another user's entry was open.
StopRefusedSeen ==
  /\ last.op = "stop"
  /\ last.status = 400
  /\ last.msg = "No active timer found"
  /\ ~ \E i \in DOMAIN entries : entries[i].userId = last.user /\ entries[i].endTime = NoTime
  /\ \E i \in DOMAIN entries : entries[i].userId # last.user /\ entries[i].endTime = NoTime

\* C4: every TimeEntry with startTime and endTime set stores
\* duration = floor((endTime - startTime) / 60 s).
DurationIsFloor ==
  \A i \in DOMAIN entries :
    (entries[i].startTime # NoTime /\ entries[i].endTime # NoTime)
    => entries[i].duration = (entries[i].endTime - entries[i].startTime) \div 60000

\* C5: a manual creation with endTime <= startTime is answered 400 and leaves
\* the table as it is, whatever the other fields, by POST /timer/entries and
\* by POST /timesheets/entries.
ManualRangeRejected ==
  \A u \in Users, s \in Instants, e \in Instants :
    (e <= s) =>
      /\ \A p \in ProjectIds, a \in ActivityIds :
           \A o \in CreateManualOutcomes(entries, nextId, u, p, a, s, e) :
             o.resp.status = 400 /\ o.entries = entries
      /\ \A ids \in BOOLEAN :
           \A o \in SheetCreateOutcomes(entries, u, ids, s, e) :
             o.resp.status = 400 /\ o.entries = entries

\* C6: every TimeEntry whose endTime is set has endTime > startTime.
EndAfterStart ==
  \A i \in DOMAIN entries :
    entries[i].endTime # NoTime => entries[i].endTime > entries[i].startTime

\* C7: update and delete of an entry whose endTime is null are answered 400
\* and leave the table as it is, in routes/timer.js and in
\* routes/timesheets.js; a step that takes an entry out of the open state is
\* a stop.
OpenEntryLeavesOnlyByStop ==
  /\ [](\A u \in Users, id \in DOMAIN entries :
          (entries[id].userId = u /\ entries[id].endTime = NoTime) =>
            /\ \A ps \in TimeOrNone, pe \in TimeOrNone :
                 /\ \A o \in UpdateOutcomes(entries, u, id, ps, pe) :
                      o.resp.status = 400 /\ o.entries = entries
                 /\ \A o \in SheetUpdateOutcomes(entries, u, id, ps, pe) :
                      o.resp.status = 400 /\ o.entries = entries
            /\ \A o \in DeleteOutcomes(entries, u, id) :
                 o.resp.status = 400 /\ o.entries = entries
            /\ \A o \in SheetDeleteOutcomes(entries, u, id) :
                 o.resp.status = 400 /\ o.entries = entries)
  /\ [][\A id \in DOMAIN entries :
          entries[id].endTime = NoTime =>
            \/ id \in DOMAIN entries' /\ entries'[id] = entries[id]
            \/ last'.op = "stop" /\ last'.status = 200]_vars

\* C8: at most one DailyLoginTracker row exists for a user and a date, logins
\* interleaving at the database calls of trackFirstLogin included; and a
\* trackFirstLogin that finds a row for its user and date answers with that
\* row, isFirstLogin = false, and changes no row.
OneTrackerPerUserDate ==
  /\ [](\A i \in DOMAIN trackers, j \in DOMAIN trackers :
          (trackers[i].userId = trackers[j].userId
             /\ trackers[i].loginDate = trackers[j].loginDate) => i = j)
  /\ [][\A r \in Slots :
          (/\ logins[r].phase = "find"
           /\ \E i \in DOMAIN trackers :
                /\ trackers[i].userId = logins[r].user
                /\ trackers[i].loginDate = logins[r].loginTime \div (24 * 3600000)
           /\ logins'[r] # logins[r])
          => /\ trackers' = trackers
             /\ last'.op = "login"
             /\ last'.status = 200
             /\ last'.msg = "not first login"
             /\ \E i \in DOMAIN trackers :
                  /\ trackers[i].userId = logins[r].user
                  /\ trackers[i].loginDate = logins[r].loginTime \div (24 * 3600000)
                  /\ last'.val = trackers[i].firstLoginTime]_vars

\* C8 happens: a login found the row of its user, already ended, at a later
\* instant of the same day.
SecondLoginSeen ==
  /\ last.op = "login"
  /\ last.msg = "not first login"
  /\ \E i \in DOMAIN trackers :
       /\ trackers[i].userId = last.user
       /\ trackers[i].firstLoginTime = last.val
       /\ trackers[i].dayEndTime # NoTime
       /\ clock > last.val

\* C9: the firstLoginTime of every row is the timestamp of the first login of
\* its user that succeeded on its date, and no step changes the
\* firstLoginTime, the user or the date of a row, or removes a row.
FirstLoginTimeKept ==
  /\ [](\A i \in DOMAIN trackers :
          /\ <<trackers[i].userId, trackers[i].loginDate>> \in DOMAIN firstLogin
          /\ trackers[i].firstLoginTime
               = firstLogin[<<trackers[i].userId, trackers[i].loginDate>>])
  /\ [][\A i \in DOMAIN trackers :
          /\ i \in DOMAIN trackers'
          /\ trackers'[i].firstLoginTime = trackers[i].firstLoginTime
          /\ trackers'[i].userId = trackers[i].userId
          /\ trackers'[i].loginDate = trackers[i].loginDate]_vars

\* C9 happens: after a first login at the start of the day, an end-day and a
\* tracker update with a location, a later login of the day was answered.
LaterLoginSeen ==
  /\ last.op = "login"
  /\ last.msg = "not first login"
  /\ clock > last.val
  /\ \E i \in DOMAIN trackers :
       /\ trackers[i].userId = last.user
       /\ trackers[i].firstLoginTime = last.val
       /\ trackers[i].dayEndTime # NoTime
       /\ trackers[i].notes = "null"
       /\ trackers[i].location = "n"

WorkingHoursExact ==
  \A i \in DOMAIN trackers :
    IF trackers[i].dayEndTime = NoTime
    THEN trackers[i].totalWorkingHours = NoTime
    ELSE /\ trackers[i].totalWorkingHours >= 0
         /\ trackers[i].totalWorkingHours * 36000
              = (IF trackers[i].dayEndTime > trackers[i].firstLoginTime
                 THEN trackers[i].dayEndTime - trackers[i].firstLoginTime ELSE 0)

\* C11 amended: totalWorkingHours is null whenever dayEndTime is null, and is
\* >= 0 and equal to max(0, dayEndTime - firstLoginTime) in hours rounded to
\* two decimals (within half a hundredth of an hour) whenever dayEndTime is
\* set.
WorkingHoursRounded ==
  \A i \in DOMAIN trackers :
    IF trackers[i].dayEndTime = NoTime
    THEN trackers[i].totalWorkingHours = NoTime
    ELSE LET diff == IF trackers[i].dayEndTime > trackers[i].firstLoginTime
                     THEN trackers[i].dayEndTime - trackers[i].firstLoginTime ELSE 0
             stored == trackers[i].totalWorkingHours * 36000
         IN /\ trackers[i].totalWorkingHours >= 0
            /\ 2 * (stored - diff) <= 36000
            /\ 2 * (diff - stored) <= 36000

\* C11 happens: a day ended half a day and some seconds after the first
\* login, and the row was updated afterwards.
WorkingHoursSeen ==
  /\ last.op = "updateTracker"
  /\ last.status = 200
  /\ \E i \in DOMAIN trackers :
       /\ trackers[i].dayEndTime > trackers[i].firstLoginTime + 12 * 3600000
       /\ trackers[i].totalWorkingHours = 1200
       /\ trackers[i].location = "n"

\* C19: after any sequence of addBreak and endBreak calls at most one element
\* of the breaks sequence has no endTime; and endBreak changes nothing but the
\* endTime of the last break, and nothing at all when the last break is
\* closed or the sequence is empty.
AtMostOneOpenBreak ==
  /\ Cardinality({i \in DOMAIN breaks : breaks[i].endTime = NoTime}) <= 1
  /\ LET after == endBreak(breaks, clock)
     IN /\ Len(after) = Len(breaks)
        /\ \A i \in DOMAIN breaks :
             (i < Len(breaks) \/ breaks[i].endTime # NoTime) => after[i] = breaks[i]
LoginEffects ==
  \A e \in AccountIds, pwOk \in BOOLEAN :
    \A o \in LoginOutcomes(users, trackers, nextTid, clock, e, pwOk) :
      IF o.body.status = 200
      THEN /\ o.users[e].loginAttempts = 0
           /\ o.users[e].lockUntil = NoTime
           /\ o.users[e].lastLogin = clock
           /\ \E i \in DOMAIN o.trackers :
                o.trackers[i].userId = e /\ o.trackers[i].loginDate = DateOf(clock)
      ELSE /\ o.trackers = trackers
           /\ \A a \in DOMAIN users : o.users[a].lastLogin = users[a].lastLogin

\* A login succeeded on an account whose lock had run out.
LoginAfterLockSeen ==
  /\ last.op = "login" /\ last.status = 200
  /\ clock > lockoutTime
  /\ users[last.user].lastLogin = clock
  /\ users[last.user].loginAttempts = 0
  /\ users[last.user].lockUntil = NoTime

\* C17: a login with an unregistered email and a login with a registered
\* email and a wrong password get the same status, the same message and the
\* same set of response fields.
FailedLoginsAlike ==
  \A e1 \in AccountIds \ DOMAIN users, e2 \in DOMAIN users :
    (users[e2].isActive /\ ~(users[e2].lockUntil # NoTime /\ users[e2].lockUntil > clock)) =>
      \A o1 \in LoginOutcomes(users, trackers, nextTid, clock, e1, FALSE),
         o2 \in LoginOutcomes(users, trackers, nextTid, clock, e2, FALSE) :
        /\ o1.body.status = o2.body.status
        /\ o1.body.message = o2.body.message
        /\ o1.body.fields = o2.body.fields

\* C12: authorize(min) lets a request through exactly when
\* level(role) >= level(min), with user = 1, manager = 2, admin = 3 (in the
\* rbac.js with two roles, for its gates user and admin); a caller with
\* role user is answered 403 by every manager-gated and admin-gated
\* endpoint, which then changes nothing; a caller with role admin is never
\* answered 403.
RoleGate ==
  LET level == [user |-> 1, manager |-> 2, admin |-> 3]
  IN /\ \A min \in RoleNames, r \in RoleNames :
          authorize(min, r) <=> level[r] >= level[min]
     /\ \A min \in {"user", "admin"}, r \in RoleNames :
          authorizeTwoRole(min, r) <=> level[r] >= level[min]
     /\ \A h \in Headers :
          authenticate(users, clock, h).pass =>
            \A idp \in IdParams :
              /\ \A o \in AdminDeleteOutcomes(users, trackers, clock, h, idp) :
                   IF users[h.id].role = "user"
                   THEN o.resp.status = 403 /\ o.users = users /\ o.trackers = trackers
                   ELSE o.resp.status # 403
              /\ \A role \in RolePatch, isActive \in ActivePatch :
                   \A o \in AdminPutOutcomes(users, trackers, clock, h, idp, role, isActive) :
                     IF users[h.id].role = "user"
                     THEN o.resp.status = 403 /\ o.users = users /\ o.trackers = trackers
                     ELSE o.resp.status # 403
              /\ \A status \in StatusFilters :
                   \A o \in UserEntriesOutcomes(users, entries, clock, h, idp.acct, status) :
                     IF users[h.id].role = "user"
                     THEN o.resp.status = 403 /\ o.listed = {}
                     ELSE o.resp.status # 403

\* A caller with role user was turned away by the role gate.
UserRoleRefusedSeen ==
  /\ last.op \in {"adminPut", "adminDelete", "userEntries"}
  /\ last.status = 403
  /\ last.user \in DOMAIN users
  /\ users[last.user].role = "user"

\* C13: a DELETE /admin/users/:id whose target is the only account with
\* role admin deletes nothing, and is answered 400 when it comes from an
\* authenticated admin (any other caller is stopped before the handler).
LastAdminKept ==
  \A h \in Headers, idp \in IdParams :
    (/\ idp.acct \in DOMAIN users
     /\ users[idp.acct].role = "admin"
     /\ \A a \in DOMAIN users : users[a].role = "admin" => a = idp.acct) =>
      \A o \in AdminDeleteOutcomes(users, trackers, clock, h, idp) :
        /\ o.users = users
        /\ (authenticate(users, clock, h).pass /\ users[h.id].role = "admin") =>
             o.resp.status = 400

\* The last-admin check answered.
LastAdminRefusedSeen ==
  /\ last.op = "adminDelete" /\ last.status = 400
  /\ last.msg = "Cannot delete the last admin user"
  /\ Cardinality({a \in DOMAIN users : users[a].role = "admin"}) = 1

\* C14: a request authenticated as admin A whose id parameter resolves to
\* A's own account is answered 400 by DELETE and by a PUT with
\* isActive = false, and leaves the users table as it is.
SelfProtected ==
  \A h \in Headers, idp \in IdParams :
    (/\ authenticate(users, clock, h).pass
     /\ users[h.id].role = "admin"
     /\ idp.acct = h.id) =>
      /\ \A o \in AdminDeleteOutcomes(users, trackers, clock, h, idp) :
           o.resp.status = 400 /\ o.users = users
      /\ \A role \in RolePatch :
           \A o \in AdminPutOutcomes(users, trackers, clock, h, idp, role, "false") :
             o.resp.status = 400 /\ o.users = users

\* C20: authenticate lets a request through only with a bearer token that
\* verifies (signature, expiry, issuer, audience) and names an existing,
\* active, unlocked user; a missing header, a malformed or badly signed
\* token and an expired token are answered 401, the last two with
\* different messages; a request it stops changes nothing.
FailsClosed ==
  \A h \in Headers :
    LET a == authenticate(users, clock, h)
    IN /\ a.pass =>
            /\ h.form = "bearer" /\ h.defect = "ok" /\ clock < h.exp
            /\ h.id \in DOMAIN users
            /\ users[h.id].isActive
            /\ ~(users[h.id].lockUntil # NoTime /\ users[h.id].lockUntil > clock)
            /\ a.user = h.id
       /\ h.form # "bearer" => a.status = 401
       /\ (h.form = "bearer" /\ h.defect \in {"malformed", "badsig"}) =>
            a.status = 401 /\ a.message = "Invalid token."
       /\ (h.form = "bearer" /\ h.defect \notin {"malformed", "badsig"} /\ clock >= h.exp) =>
            a.status = 401 /\ a.message = "Token has expired."
       /\ ~a.pass =>
            \A idp \in IdParams :
              /\ \A o \in AdminDeleteOutcomes(users, trackers, clock, h, idp) :
                   /\ o.users = users /\ o.trackers = trackers
                   /\ o.resp.status = a.status
              /\ \A role \in RolePatch, isActive \in ActivePatch :
                   \A o \in AdminPutOutcomes(users, trackers, clock, h, idp, role, isActive) :
                     /\ o.users = users /\ o.trackers = trackers
                     /\ o.resp.status = a.status

\* A request with a token that had run out was answered.
ExpiredTokenSeen ==
  /\ last.op \in {"adminPut", "adminDelete"}
  /\ last.status = 401
  /\ last.msg = "Token has expired."
  /\ clock >= accessTokenExpiry

TimerAlternates ==
  AllIdle =>
    \A u \in Users :
      /\ Cardinality(OpenEntries(entries, u)) <= 1
      /\ \A p \in ProjectIds, a \in ActivityIds :
           \A o \in StartCheck(entries, u, p, a) :
             o.go <=> (/\ \A i \in DOMAIN entries :
                             ~(entries[i].userId = u /\ entries[i].endTime = NoTime)
                       /\ p \in WorkProjects /\ a \in Activities)
      /\ (last.op = "start" /\ last.status = 201 /\ last.user = u) =>
           \E i \in DOMAIN entries :
             entries[i].userId = u /\ entries[i].startTime <= clock
      /\ \A o \in StopOutcomes(entries, u, clock) :
           /\ o.resp.status = 200 <=>
                \E i \in DOMAIN entries :
                  entries[i].userId = u /\ entries[i].endTime = NoTime
           /\ o.resp.status = 200 =>
                /\ DOMAIN o.entries = DOMAIN entries
                /\ \A i \in DOMAIN entries :
                     IF entries[i].userId = u /\ entries[i].endTime = NoTime
                     THEN o.entries[i].endTime = clock
                     ELSE o.entries[i] = entries[i]

\* C22: createManual by U with a project and an activity that resolve and
\* endTime > startTime is answered 201, adds exactly one row, owned by U,
\* with the given startTime and endTime and isManual = true, and changes no
\* other row; in POST /timer/entries and in POST /timesheets/entries.
ManualCreated ==
  \A u \in Users, s \in Instants, e \in Instants :
    e > s =>
      /\ \A p \in WorkProjects, a \in Activities :
           \A o \in CreateManualOutcomes(entries, nextId, u, p, a, s, e) :
             /\ o.resp.status = 201
             /\ DOMAIN o.entries = DOMAIN entries \cup {nextId}
             /\ nextId \notin DOMAIN entries
             /\ o.entries[nextId].userId = u
             /\ o.entries[nextId].startTime = s
             /\ o.entries[nextId].endTime = e
             /\ o.entries[nextId].isManual
             /\ \A i \in DOMAIN entries : o.entries[i] = entries[i]
      /\ \A o \in SheetCreateOutcomes(entries, u, TRUE, s, e) :
           /\ o.resp.status = 201
           /\ Cardinality(DOMAIN o.entries) = Cardinality(DOMAIN entries) + 1
           /\ \A i \in DOMAIN entries : o.entries[i] = entries[i]

\* C23: no two entries of one user cover overlapping time intervals, an
\* open entry covering [startTime, now].
NoOverlap ==
  \A i \in DOMAIN entries, j \in DOMAIN entries :
    (i # j /\ entries[i].userId = entries[j].userId) =>
      LET endI == IF entries[i].endTime = NoTime THEN clock ELSE entries[i].endTime
          endJ == IF entries[j].endTime = NoTime THEN clock ELSE entries[j].endTime
      IN ~(entries[i].startTime < endJ /\ entries[j].startTime < endI)

\* C24: logins with the correct password that interleave at the database
\* calls of trackFirstLogin are all answered 200, and one row results for
\* the user and the date.
ConcurrentLoginsSucceed ==
  /\ last.op = "login" => last.status = 200
  /\ \A i \in DOMAIN trackers, j \in DOMAIN trackers :
       (trackers[i].userId = trackers[j].userId
          /\ trackers[i].loginDate = trackers[j].loginDate) => i = j

\* C25: with wrong-password logins of one account interleaved, at most
\* maxLoginAttempts comparisons are made before the account is locked, the
\* stored loginAttempts never exceeds maxLoginAttempts, and no increment is
\* lost: once every request has written, loginAttempts is the number of
\* comparisons made.
NoLostIncrement ==
  \A e \in DOMAIN users :
    /\ compared[e] <= maxLoginAttempts
    /\ users[e].loginAttempts <= maxLoginAttempts
    /\ (\A r \in Slots : guessing[r].phase = "idle") =>
         users[e].loginAttempts = compared[e]

\* C26: a refresh token of generateTokens, sent as the bearer token, never
\* passes authenticate.
RefreshRejected ==
  \A id \in AccountIds, t \in {0, clock} :
    ~authenticate(users, clock, generateTokens(id, t).refreshToken).pass

\* C27: the register operation creates no account with role admin,
\* whatever role the body carries: an admin of the table after a register
\* was an admin before it.
RegisterNeverAdmin ==
  \A email \in AccountIds, role \in RolePatch :
    \A o \in RegisterOutcomes(users, trackers, clock, email, role) :
      \A a \in DOMAIN o.users :
        o.users[a].role = "admin" => (a \in DOMAIN users /\ users[a].role = "admin")

\* C28: admin user-update and user-delete requests never leave the table
\* without an account of role admin.
SomeAdminRemains ==
  \E a \in DOMAIN users : users[a].role = "admin"

\* C30: a bad-password response carries attemptsRemaining =
\* max(0, maxLoginAttempts - n), n the loginAttempts stored after the
\* attempt, and it is 0 exactly when the attempt locks the account.
AttemptsRemainingExact ==
  \A e \in DOMAIN users :
    \A o \in LoginOutcomes(users, trackers, nextTid, clock, e, FALSE) :
      "attemptsRemaining" \in o.body.fields =>
        /\ o.body.attemptsRemaining = Max0(maxLoginAttempts - o.users[e].loginAttempts)
        /\ o.body.attemptsRemaining = 0
             <=> (o.users[e].lockUntil # users[e].lockUntil /\ o.users[e].lockUntil > clock)

\* C29: a request bearing a token issued to U is decided on U's stored row
\* at request time: 401 when U is deleted or deactivated, 423 when U is
\* active and locked (token not expired), and the admin gate answers 403
\* exactly when the stored role is not admin; a logout changes no stored
\* row, and the token authenticates after it as before.
StoredRowDecides ==
  \A h \in IssuedTokens :
    LET out == LogoutOutcomes(users, trackers, clock, h)
        del == AdminDeleteOutcomes(users, trackers, clock, h,
                                   [acct |-> "u3", upper |-> FALSE])
        gone == h.id \notin DOMAIN users \/ ~users[h.id].isActive
        live == ~gone /\ clock < h.exp
    IN /\ \A o \in out \cup del :
            /\ gone => o.resp.status = 401 /\ o.users = users
            /\ live /\ isLocked(users[h.id], clock) => o.resp.status = 423
       /\ \A o \in del :
            live /\ ~isLocked(users[h.id], clock)
              => (o.resp.status = 403 <=> users[h.id].role # "admin")
       /\ \A o \in out :
            /\ o.users = users /\ o.trackers = trackers
            /\ live /\ ~isLocked(users[h.id], clock) => o.resp.status = 200
            /\ authenticate(o.users, clock, h) = authenticate(users, clock, h)

\* C29 witness: u1, seeded as admin, now has the role user and its request
\* was refused by the role gate.
DemotedAdminRefusedSeen ==
  /\ "u1" \in DOMAIN users
  /\ users["u1"].role = "user"
  /\ last.user = "u1"
  /\ last.status = 403

====
